---- MODULE Spec2Model ----
(***************************************************************************)
(* Model of the PMGBP model generator (ModelGenerator.py): the routing     *)
(* table builder (ModelStructure), the reaction-set grouper (chunks,       *)
(* generate_enzyme_set), the compartment assemblers                        *)
(* (generate_bulk_compartment, generate_organelle_compartment) and the     *)
(* top-level assembler (generate_top, generate_top_bulk_ic).               *)
(*                                                                         *)
(* Python dicts are ordered mappings: sequences of <<key, value>> pairs    *)
(* with unique keys, in insertion order.  A port is a pair                 *)
(* <<number, kind>>: the integer port n is <<n, "">> and the string        *)
(* str(n) + "_product" is <<n, "product">>.                                *)
(***************************************************************************)
EXTENDS Integers, Sequences, FiniteSets, TLC

(* ----------------------------- bounds ---------------------------------- *)
MaxMembranes == 3
MaxExternal == 1
MaxEnzymes == 4
MaxGroupsSize == 2
MaxOutputPortAmount == 3
MaxOrganelles == 2

(* ------------------------ constants.py names --------------------------- *)
BULK == "bulk"
OUTER == "outer"
INNER == "inner"
TRANS == "trans"
MEMBRANE == "membrane"
PRODUCT_MESSAGE_TYPE == "product_message"
REACTANT_MESSAGE_TYPE == "reactant_message"
INFORMATION_MESSAGE_TYPE == "information_message"

(* --------------------------- input domains ----------------------------- *)
MembraneNames == {OUTER, INNER, TRANS}
ExternalNames == {INNER, TRANS, MEMBRANE}
EnzymeIds == 1..MaxEnzymes
OrganelleIds == {"o" \o ToString(i) : i \in 1..MaxOrganelles}

\* the sequences over S of length at most n without a repeated element
InjSeqs(S, n) ==
  {s \in UNION {[1..k -> S] : k \in 0..n} :
     \A i, j \in 1..Len(s) : i # j => s[i] # s[j]}

(* ------------------------- ordered mappings ---------------------------- *)
HasKey(d, k) == \E i \in 1..Len(d) : d[i][1] = k
Get(d, k) == d[CHOOSE i \in 1..Len(d) : d[i][1] = k][2]
Keys(d) == [i \in 1..Len(d) |-> d[i][1]]
Values(d) == [i \in 1..Len(d) |-> d[i][2]]
KeySet(d) == {d[i][1] : i \in 1..Len(d)}
ValueSet(d) == {d[i][2] : i \in 1..Len(d)}
\* d[k] = v : an existing key keeps its position, a new key is appended
Put(d, k, v) ==
  IF HasKey(d, k)
  THEN [i \in 1..Len(d) |-> IF d[i][1] = k THEN <<k, v>> ELSE d[i]]
  ELSE Append(d, <<k, v>>)
\* {k: v for k, v in pairs}
RECURSIVE FromPairs(_)
FromPairs(pairs) ==
  IF pairs = <<>> THEN <<>>
  ELSE Put(FromPairs(SubSeq(pairs, 1, Len(pairs) - 1)),
           pairs[Len(pairs)][1], pairs[Len(pairs)][2])
\* zip(xs, range(len(xs)))
ZipRange(xs) == [i \in 1..Len(xs) |-> <<xs[i], i - 1>>]
RECURSIVE Concat(_)
Concat(ss) == IF ss = <<>> THEN <<>> ELSE Head(ss) \o Concat(Tail(ss))
SeqSet(s) == {s[i] : i \in 1..Len(s)}
Max(S) == CHOOSE x \in S : \A y \in S : y <= x
Count(s, x) == Cardinality({i \in 1..Len(s) : s[i] = x})

NumPort(n) == <<n, "">>
StrPort(n, kind) == <<n, kind>>

(* ------------------------------ chunks --------------------------------- *)
\* islice(it, SIZE): the next at most SIZE keys after the first `it` ones
\* a slice that stops one key early
IsliceShort(keys, it, SIZE) ==
  SubSeq(keys, it + 1, IF it + SIZE - 1 <= Len(keys) THEN it + SIZE - 1 ELSE Len(keys))
Islice(keys, it, SIZE) ==
  SubSeq(keys, it + 1, IF it + SIZE <= Len(keys) THEN it + SIZE ELSE Len(keys))
\* one pass of `for i in range(0, len(data), SIZE)`, `it` keys consumed so far
RECURSIVE ChunksFrom(_, _, _, _)
ChunksFrom(data, SIZE, i, it) ==
  IF i >= Len(data) THEN <<>>
  ELSE LET ks == Islice(Keys(data), it, SIZE)
       IN  <<[j \in 1..Len(ks) |-> <<ks[j], Get(data, ks[j])>>]>>
           \o ChunksFrom(data, SIZE, i + SIZE, it + Len(ks))
chunks(data, SIZE) == ChunksFrom(data, SIZE, 0, 0)

(* --------------------------- ModelStructure ---------------------------- *)
\* the pairs (external_cid, reaction_set) in the order of the nested loops
ExternalPairs(external_enzyme_sets) ==
  Concat([i \in 1..Len(external_enzyme_sets) |->
            [j \in 1..Len(external_enzyme_sets[i][2]) |->
               <<external_enzyme_sets[i][1], external_enzyme_sets[i][2][j]>>]])
RECURSIVE AddExternal(_, _, _)
AddExternal(routing_table, pairs, port_number) ==
  IF pairs = <<>> THEN routing_table
  ELSE AddExternal(Put(routing_table, Head(pairs), port_number),
                   Tail(pairs), port_number + 1)
\* membrane input ports numbered like the routing table, from 1
MembraneEicFromOne(membranes) ==
  FromPairs([i \in 1..Len(membranes) |-> <<membranes[i], i>>])
MembraneEic(membranes) == FromPairs(ZipRange(membranes))
InternalEnzymeSets(membranes) == <<BULK>> \o membranes
InternalRoutingTable(cid, membranes) ==
  FromPairs([i \in 1..Len(InternalEnzymeSets(membranes)) |->
               <<<<cid, InternalEnzymeSets(membranes)[i]>>, i - 1>>])
\* external ports numbered from the membrane count instead of the table size
RoutingTableFromMembraneCount(cid, membranes, external_enzyme_sets) ==
  AddExternal(InternalRoutingTable(cid, membranes),
              ExternalPairs(external_enzyme_sets),
              Len(membranes))
RoutingTable(cid, membranes, external_enzyme_sets) ==
  AddExternal(InternalRoutingTable(cid, membranes),
              ExternalPairs(external_enzyme_sets),
              Len(InternalRoutingTable(cid, membranes)))
\* enzyme_set is what parser.get_enzyme_set returns for the sets of cid; the
\* space parameters (volume, interval time, metabolites) are parser data that
\* no table or coupling depends on and are left out
ModelStructure(cid, enzyme_set, membranes, external_enzyme_sets) ==
  [id |-> cid,
   membrane_eic |-> MembraneEic(membranes),
   routing_table |-> RoutingTable(cid, membranes, external_enzyme_sets),
   enzyme_sets |-> FromPairs([i \in 1..Len(InternalEnzymeSets(membranes)) |->
                     <<InternalEnzymeSets(membranes)[i], enzyme_set>>])]
\* the fields as set before the tables are built
EmptyStructure ==
  [id |-> "", membrane_eic |-> <<>>, routing_table |-> <<>>, enzyme_sets |-> <<>>]

(* ------------------- collaborators (accumulators) ---------------------- *)
\* XMLParametersWriter: the records it was handed, in order
EmptyParameterWriter ==
  [reactions |-> <<>>, enzymes |-> <<>>, routers |-> <<>>, spaces |-> <<>>, saved |-> FALSE]
\* ModelCodeWriter: the requests it was handed, in order, with their answers
EmptyCoder == [enzyme_sets |-> <<>>, spaces |-> <<>>, coupled |-> <<>>]
EnzymeSetModelName(cid, esn) == <<"enzyme_set", cid, esn>>
SpaceModelName(cid) == <<"space", cid, "">>
CoupledModelName(cid) == <<"coupled", cid, "">>
EnzymeType == <<"type", "pmgbp::models::enzyme", "">>
SpaceType(space) == <<"type", "pmgbp::structs", space[2]>>
\* write_enzyme_set answers (model name, input port amount, output port amount)
WriteEnzymeSetRet(cid, esn, output_port_amount) ==
  <<EnzymeSetModelName(cid, esn), 1, output_port_amount>>
OutPortNumbers(ports) == {ports[i][1][1] : i \in {j \in 1..Len(ports) : ports[j][3] = "out"}}
InPortNumbers(ports) == {ports[i][1][1] : i \in {j \in 1..Len(ports) : ports[j][3] = "in"}}
\* write_coupled_model answers (model name, input port amount, output port
\* amount): the amounts count the port numbers the descriptor declares
WriteCoupledModelRet(cid, ports) ==
  <<CoupledModelName(cid),
    Cardinality(InPortNumbers(ports)),
    Cardinality(OutPortNumbers(ports))>>

(* ------------------------ generate_enzyme_set -------------------------- *)
EnzymeSetId(cid, esn) == <<cid, esn>>
GroupId(cid, esn, port) == <<cid, esn, port>>
\* d.update(pairs)
RECURSIVE Update(_, _)
Update(d, pairs) ==
  IF pairs = <<>> THEN d
  ELSE Update(Put(d, Head(pairs)[1], Head(pairs)[2]), Tail(pairs))
\* the loop `for group in groups`, with the port counter and the tables so far
RECURSIVE EnzymeSetLoop(_, _, _, _, _)
EnzymeSetLoop(cid, esn, groups, port, acc) ==
  IF groups = <<>> THEN acc
  ELSE LET enzyme_ids == Keys(Head(groups))
       IN  EnzymeSetLoop(cid, esn, Tail(groups), port + 1,
             [groups_enzyme_ids |-> Append(acc.groups_enzyme_ids, enzyme_ids),
              routing_table |->
                Update(acc.routing_table,
                       [j \in 1..Len(enzyme_ids) |-> <<enzyme_ids[j], port>>]),
              routers |->
                Append(acc.routers,
                       <<GroupId(cid, esn, port), FromPairs(ZipRange(enzyme_ids))>>)])
\* the port counter started at 1 instead of 0
generate_enzyme_set_from_one(cid, esn, enzyme_set, SIZE, output_port_amount) ==
  LET loop == EnzymeSetLoop(cid, esn, chunks(enzyme_set, SIZE), 1,
                [groups_enzyme_ids |-> <<>>, routing_table |-> <<>>, routers |-> <<>>])
  IN  [routers |-> Append(loop.routers, <<EnzymeSetId(cid, esn), loop.routing_table>>),
       request |-> [cid |-> cid, esn |-> esn,
                    groups_enzyme_ids |-> loop.groups_enzyme_ids,
                    ret |-> WriteEnzymeSetRet(cid, esn, output_port_amount)],
       ret |-> WriteEnzymeSetRet(cid, esn, output_port_amount)]
\* generate_enzyme_set: the router records added, the request to the coder and
\* the answer; output_port_amount is the coder's answer for this set
generate_enzyme_set(cid, esn, enzyme_set, SIZE, output_port_amount) ==
  LET loop == EnzymeSetLoop(cid, esn, chunks(enzyme_set, SIZE), 0,
                [groups_enzyme_ids |-> <<>>, routing_table |-> <<>>, routers |-> <<>>])
  IN  [routers |-> Append(loop.routers, <<EnzymeSetId(cid, esn), loop.routing_table>>),
       request |-> [cid |-> cid, esn |-> esn,
                    groups_enzyme_ids |-> loop.groups_enzyme_ids,
                    ret |-> WriteEnzymeSetRet(cid, esn, output_port_amount)],
       ret |-> WriteEnzymeSetRet(cid, esn, output_port_amount)]
\* generate_enzyme_sets: opa maps each reaction set name to the coder's
\* output port amount for it
generate_enzyme_sets(compartment, SIZE, opa) ==
  LET es == compartment.enzyme_sets
      one == [i \in 1..Len(es) |->
                generate_enzyme_set(compartment.id, es[i][1], es[i][2], SIZE, opa[es[i][1]])]
  IN  [routers |-> Concat([i \in 1..Len(es) |-> one[i].routers]),
       requests |-> [i \in 1..Len(es) |-> one[i].request],
       enzyme_sets |-> FromPairs([i \in 1..Len(es) |->
                          <<<<compartment.id, es[i][1]>>, one[i].ret>>])]

(* ------------------------ compartment assemblers ----------------------- *)
SpaceRequest(cid, output_port_amount) ==
  [cid |-> cid, cids |-> <<cid>>,
   output_port_amount |-> output_port_amount, input_port_amount |-> 1,
   types |-> <<PRODUCT_MESSAGE_TYPE, REACTANT_MESSAGE_TYPE, INFORMATION_MESSAGE_TYPE>>]
CoupledRequest(cid, sub_models, ports, eic, eoc, ic) ==
  [cid |-> cid, sub_models |-> sub_models, ports |-> ports,
   eic |-> eic, eoc |-> eoc, ic |-> ic, ret |-> WriteCoupledModelRet(cid, ports)]
\* the three edges between the space and one reaction set model
SpaceIc(space, port_number, es_model_name) ==
  <<<<space, SpaceType(space), NumPort(port_number), es_model_name, EnzymeType, NumPort(0)>>,
    <<es_model_name, EnzymeType, StrPort(0, "product"),
      space, SpaceType(space), StrPort(0, "product")>>,
    <<es_model_name, EnzymeType, StrPort(0, "information"),
      space, SpaceType(space), StrPort(0, "information")>>>>
\* assert es_address[0] == compartment.id
OrganelleAssertionSkipped(es_address, cid) == TRUE
OrganelleAssertion(es_address, cid) == es_address[1] = cid
\* the loop over compartment.routing_table.items() with its assertion
RECURSIVE OrganelleIc(_, _, _, _, _)
OrganelleIc(cid, enzyme_sets, space, items, ic) ==
  IF items = <<>> THEN [status |-> "ok", ic |-> ic]
  ELSE IF ~OrganelleAssertion(Head(items)[1], cid)
       THEN [status |-> "AssertionError", ic |-> ic]
  ELSE IF ~HasKey(enzyme_sets, Head(items)[1]) THEN [status |-> "KeyError", ic |-> ic]
  ELSE OrganelleIc(cid, enzyme_sets, space, Tail(items),
         ic \o SpaceIc(space, Head(items)[2], Get(enzyme_sets, Head(items)[1])[1]))
\* (es_model_name, port_number) for port_number in range(1, output_port_amount)
EocPairs(enzyme_sets) ==
  Concat([i \in 1..Len(enzyme_sets) |->
            [port_number \in 1..(enzyme_sets[i][2][3] - 1) |->
               <<enzyme_sets[i][2][1], port_number>>]])
OrganelleEoc(enzyme_sets) ==
  LET pairs == EocPairs(enzyme_sets) IN
  Concat([k \in 1..Len(pairs) |->
    LET es_model_name == pairs[k][1]
        port_number == pairs[k][2]
    IN  <<<<es_model_name, EnzymeType,
            StrPort(port_number, "product"), StrPort(port_number, "product")>>,
          <<es_model_name, EnzymeType,
            StrPort(port_number, "information"), StrPort(port_number, "information")>>>>])
\* every port number appended, seen before or not
AppendAll(seen, xs) == seen \o xs
\* `if port_number not in out_port_numbers: out_port_numbers.append(...)`
RECURSIVE AppendNew(_, _)
AppendNew(seen, xs) ==
  IF xs = <<>> THEN seen
  ELSE AppendNew(IF Head(xs) \in SeqSet(seen) THEN seen ELSE Append(seen, Head(xs)),
                 Tail(xs))
OutPortNumberList(enzyme_sets) ==
  LET pairs == EocPairs(enzyme_sets)
  IN  AppendNew(<<>>, [k \in 1..Len(pairs) |-> pairs[k][2]])
OrganelleOutPorts(enzyme_sets) ==
  LET out_port_numbers == OutPortNumberList(enzyme_sets) IN
  Concat([k \in 1..Len(out_port_numbers) |->
    <<<<StrPort(out_port_numbers[k], "product"), PRODUCT_MESSAGE_TYPE, "out">>,
      <<StrPort(out_port_numbers[k], "information"), INFORMATION_MESSAGE_TYPE, "out">>>>])
OrganelleEic(compartment, enzyme_sets) ==
  [i \in 1..Len(compartment.membrane_eic) |->
     <<Get(enzyme_sets, <<compartment.id, compartment.membrane_eic[i][1]>>)[1],
       EnzymeType, NumPort(0), NumPort(compartment.membrane_eic[i][2])>>]
OrganelleInPorts(compartment) ==
  [i \in 1..Len(compartment.membrane_eic) |->
     <<NumPort(compartment.membrane_eic[i][2]), REACTANT_MESSAGE_TYPE, "in">>]

\* generate_organelle_compartment, from the result of generate_enzyme_sets on:
\* the accumulators after the call, how the call ended and what it returned
OrganelleAssemble(compartment, es, enzyme_sets, pw, cd) ==
  LET pw1 == [pw EXCEPT !.routers = @ \o es.routers,
                        !.spaces = Append(@, <<compartment.id, compartment.routing_table>>)]
      space == SpaceModelName(compartment.id)
      cd1 == [cd EXCEPT !.enzyme_sets = @ \o es.requests,
                        !.spaces = Append(@, SpaceRequest(compartment.id, Len(enzyme_sets)))]
      sub_models == <<space>> \o [i \in 1..Len(enzyme_sets) |-> enzyme_sets[i][2][1]]
      loop == OrganelleIc(compartment.id, enzyme_sets, space, compartment.routing_table, <<>>)
      request == CoupledRequest(compartment.id, sub_models,
                   OrganelleOutPorts(enzyme_sets) \o OrganelleInPorts(compartment),
                   OrganelleEic(compartment, enzyme_sets),
                   OrganelleEoc(enzyme_sets), loop.ic)
  IN  IF loop.status # "ok"
      THEN [pw |-> pw1, cd |-> cd1, status |-> loop.status, ret |-> <<>>]
      ELSE [pw |-> pw1, cd |-> [cd1 EXCEPT !.coupled = Append(@, request)],
            status |-> "ok", ret |-> request.ret]
OrganelleWith(compartment, es, pw, cd) ==
  OrganelleAssemble(compartment, es, es.enzyme_sets, pw, cd)
generate_organelle_compartment(compartment, SIZE, opa, pw, cd) ==
  OrganelleWith(compartment, generate_enzyme_sets(compartment, SIZE, opa), pw, cd)

\* assert len(enzyme_sets) == 1
BulkAssertionAtLeastOne(enzyme_sets) == Len(enzyme_sets) >= 1
BulkAssertion(enzyme_sets) == Len(enzyme_sets) = 1
BulkEntries(cid, routing_table) ==
  SelectSeq(routing_table, LAMBDA e : e[1][1] # cid)
\* generate_bulk_compartment, from the result of generate_enzyme_sets on
BulkAssemble(compartment, es, enzyme_sets, pw, cd) ==
  LET cid == compartment.id
      pw0 == [pw EXCEPT !.routers = @ \o es.routers]
      cd0 == [cd EXCEPT !.enzyme_sets = @ \o es.requests]
      bulk == Get(enzyme_sets, <<cid, BULK>>)[1]
      pw1 == [pw0 EXCEPT !.spaces = Append(@, <<cid, compartment.routing_table>>)]
      output_port_amount == Max(ValueSet(compartment.routing_table)) + 1
      space == SpaceModelName(cid)
      cd1 == [cd0 EXCEPT !.spaces = Append(@, SpaceRequest(cid, output_port_amount))]
      sub_models == <<space, bulk>>
      bulk_port_number == Get(compartment.routing_table, <<cid, BULK>>)
      ic == SpaceIc(space, bulk_port_number, bulk)
      entries == BulkEntries(cid, compartment.routing_table)
      eoc == [i \in 1..Len(entries) |->
                <<space, SpaceType(space), NumPort(entries[i][2]), NumPort(entries[i][2])>>]
      out_ports == [i \in 1..Len(entries) |->
                      <<NumPort(entries[i][2]), REACTANT_MESSAGE_TYPE, "out">>]
      in_ports == <<<<StrPort(0, "product"), PRODUCT_MESSAGE_TYPE, "in">>,
                    <<StrPort(0, "information"), INFORMATION_MESSAGE_TYPE, "in">>>>
      eic == <<<<space, SpaceType(space), StrPort(0, "product"), StrPort(0, "product")>>,
               <<space, SpaceType(space), StrPort(0, "information"),
                 StrPort(0, "information")>>>>
      request == CoupledRequest(cid, sub_models, in_ports \o out_ports, eic, eoc, ic)
  IN  IF ~BulkAssertion(enzyme_sets)
      THEN [pw |-> pw0, cd |-> cd0, status |-> "AssertionError", ret |-> <<>>]
      ELSE [pw |-> pw1, cd |-> [cd1 EXCEPT !.coupled = Append(@, request)],
            status |-> "ok", ret |-> request.ret]
BulkWith(compartment, es, pw, cd) ==
  BulkAssemble(compartment, es, es.enzyme_sets, pw, cd)
generate_bulk_compartment(compartment, SIZE, opa, pw, cd) ==
  BulkWith(compartment, generate_enzyme_sets(compartment, SIZE, opa), pw, cd)

(* -------------------------- ModelGenerator ----------------------------- *)
\* ModelGenerator.__init__: the four kinds of compartment structures
ModelGeneratorInit(compartments, extra_cellular_id, periplasm_id, cytoplasm_id, enzyme_set) ==
  LET special_compartment_ids == {extra_cellular_id, periplasm_id, cytoplasm_id}
      others == SelectSeq(compartments, LAMBDA cid : cid \notin special_compartment_ids)
      c_external_enzyme_sets ==
        Put(FromPairs([i \in 1..Len(others) |-> <<others[i], <<MEMBRANE>>>>]),
            periplasm_id, <<INNER, TRANS>>)
      e_external_enzyme_sets == <<<<periplasm_id, <<OUTER, TRANS>>>>>>
  IN  [extra_cellular_id |-> extra_cellular_id,
       periplasm_id |-> periplasm_id,
       cytoplasm_id |-> cytoplasm_id,
       periplasm |-> ModelStructure(periplasm_id, enzyme_set, <<OUTER, INNER, TRANS>>, <<>>),
       extra_cellular |-> ModelStructure(extra_cellular_id, enzyme_set, <<>>,
                                         e_external_enzyme_sets),
       cytoplasm |-> ModelStructure(cytoplasm_id, enzyme_set, <<>>, c_external_enzyme_sets),
       organelles |-> FromPairs([i \in 1..Len(others) |->
                        <<others[i], ModelStructure(others[i], enzyme_set, <<MEMBRANE>>, <<>>)>>])]

\* every entry of another compartment taken for a periplasm entry
TargetsAnyCompartment(g, cid) == TRUE
\* if cid == self.periplasm.id
TargetsPeriplasm(g, cid) == cid = g.periplasm.id
\* the loop of generate_top_bulk_ic over bulk_routing_table.items()
RECURSIVE TopBulkIcLoop(_, _, _, _, _, _)
TopBulkIcLoop(g, bulk_model, bulk_cid, items, periplasm_model, ic) ==
  IF items = <<>> THEN [status |-> "ok", ic |-> ic]
  ELSE IF Head(items)[1][1] = bulk_cid
       THEN TopBulkIcLoop(g, bulk_model, bulk_cid, Tail(items), periplasm_model, ic)
  ELSE IF TargetsPeriplasm(g, Head(items)[1][1])
       THEN IF ~HasKey(g.periplasm.membrane_eic, Head(items)[1][2])
            THEN [status |-> "KeyError", ic |-> ic]
            ELSE TopBulkIcLoop(g, bulk_model, bulk_cid, Tail(items), periplasm_model,
                   Append(ic, <<bulk_model, bulk_model, NumPort(Head(items)[2]),
                                periplasm_model, periplasm_model,
                                NumPort(Get(g.periplasm.membrane_eic, Head(items)[1][2]))>>))
  ELSE TopBulkIcLoop(g, bulk_model, bulk_cid, Tail(items), periplasm_model, ic)
generate_top_bulk_ic(g, bulk_model, bulk_cid, bulk_routing_table, periplasm_model) ==
  LET periplasm_oport_number == IF bulk_cid = g.cytoplasm.id THEN 1 ELSE 2
  IN  TopBulkIcLoop(g, bulk_model, bulk_cid, bulk_routing_table, periplasm_model,
        <<<<periplasm_model, periplasm_model, StrPort(periplasm_oport_number, "product"),
            bulk_model, bulk_model, StrPort(0, "product")>>,
          <<periplasm_model, periplasm_model, StrPort(periplasm_oport_number, "information"),
            bulk_model, bulk_model, StrPort(0, "information")>>>>)

\* the coder's answers for the reaction sets of one compartment
OpaOf(opa, compartment) ==
  [esn \in KeySet(compartment.enzyme_sets) |-> opa[<<compartment.id, esn>>]]
\* `for cid, model_structure in self.organelles.items()`: generate each organelle
RECURSIVE TopOrganelles(_, _, _, _, _, _)
TopOrganelles(organelles, SIZE, opa, pw, cd, organelle_models) ==
  IF organelles = <<>>
  THEN [pw |-> pw, cd |-> cd, status |-> "ok", organelle_models |-> organelle_models]
  ELSE LET next(r) ==
             IF r.status # "ok"
             THEN [pw |-> r.pw, cd |-> r.cd, status |-> r.status,
                   organelle_models |-> organelle_models]
             ELSE TopOrganelles(Tail(organelles), SIZE, opa, r.pw, r.cd,
                    Put(organelle_models, Head(organelles)[1], r.ret))
       IN  next(generate_organelle_compartment(Head(organelles)[2], SIZE,
                  OpaOf(opa, Head(organelles)[2]), pw, cd))
\* the extracellular edges added as soon as the organelle has any output port
OrganelleTopIcAnyOutput(g, cytoplasm_model, extra_cellular_model, cid, model_name, output_port_amount, esn, es_port_number) ==
  LET c_port_number == Get(g.cytoplasm.routing_table, <<cid, esn>>)
      e_port_number == Get(g.cytoplasm.routing_table, <<cid, esn>>)
  IN  <<<<cytoplasm_model, NumPort(c_port_number), model_name, NumPort(es_port_number)>>,
        <<model_name, model_name, StrPort(1, "product"),
          cytoplasm_model, cytoplasm_model, StrPort(0, "product")>>,
        <<model_name, model_name, StrPort(1, "information"),
          cytoplasm_model, cytoplasm_model, StrPort(0, "information")>>>>
      \o (IF output_port_amount > 0
          THEN <<<<extra_cellular_model, extra_cellular_model, NumPort(e_port_number),
                   model_name, model_name, NumPort(es_port_number)>>,
                 <<model_name, model_name, StrPort(2, "product"),
                   extra_cellular_model, extra_cellular_model, StrPort(0, "product")>>,
                 <<model_name, model_name, StrPort(2, "information"),
                   extra_cellular_model, extra_cellular_model, StrPort(0, "information")>>>>
          ELSE <<>>)
\* the edges of one organelle and one of its membranes
OrganelleTopIc(g, cytoplasm_model, extra_cellular_model, cid, model_name, output_port_amount, esn, es_port_number) ==
  LET c_port_number == Get(g.cytoplasm.routing_table, <<cid, esn>>)
      e_port_number == Get(g.cytoplasm.routing_table, <<cid, esn>>)
  IN  <<<<cytoplasm_model, NumPort(c_port_number), model_name, NumPort(es_port_number)>>,
        <<model_name, model_name, StrPort(1, "product"),
          cytoplasm_model, cytoplasm_model, StrPort(0, "product")>>,
        <<model_name, model_name, StrPort(1, "information"),
          cytoplasm_model, cytoplasm_model, StrPort(0, "information")>>>>
      \o (IF output_port_amount > 1
          THEN <<<<extra_cellular_model, extra_cellular_model, NumPort(e_port_number),
                   model_name, model_name, NumPort(es_port_number)>>,
                 <<model_name, model_name, StrPort(2, "product"),
                   extra_cellular_model, extra_cellular_model, StrPort(0, "product")>>,
                 <<model_name, model_name, StrPort(2, "information"),
                   extra_cellular_model, extra_cellular_model, StrPort(0, "information")>>>>
          ELSE <<>>)
\* `for cid, (model_name, _, output_port_amount) in organelle_models.items()`
OrganellesTopIc(g, cytoplasm_model, extra_cellular_model, organelle_models) ==
  Concat([i \in 1..Len(organelle_models) |->
    LET cid == organelle_models[i][1]
        membrane_eic == Get(g.organelles, cid).membrane_eic
    IN  Concat([j \in 1..Len(membrane_eic) |->
          OrganelleTopIc(g, cytoplasm_model, extra_cellular_model, cid,
                         organelle_models[i][2][1], organelle_models[i][2][3],
                         membrane_eic[j][1], membrane_eic[j][2])])])
OrganellesTopKeyError(g, organelle_models) ==
  \E i \in 1..Len(organelle_models) :
    \E esn \in KeySet(Get(g.organelles, organelle_models[i][1]).membrane_eic) :
      ~HasKey(g.cytoplasm.routing_table, <<organelle_models[i][1], esn>>)
TopName == "cell"
\* generate_top, from the four kinds of compartment models on
TopAssemble(g, r1, r2, r3, r4, ic1, ic2) ==
  LET cytoplasm_model == r1.ret[1]
      extra_cellular_model == r2.ret[1]
      periplasm_model == r3.ret[1]
      sub_models == <<cytoplasm_model, extra_cellular_model, periplasm_model>>
                    \o [i \in 1..Len(r4.organelle_models) |-> r4.organelle_models[i][2][1]]
      ic == ic1.ic \o ic2.ic
            \o OrganellesTopIc(g, cytoplasm_model, extra_cellular_model, r4.organelle_models)
      request == CoupledRequest(TopName, sub_models, <<>>, <<>>, <<>>, ic)
      failed == [pw |-> r4.pw, cd |-> r4.cd, status |-> r4.status, ret |-> <<>>]
  IN  IF ic1.status # "ok" THEN [failed EXCEPT !.status = ic1.status]
      ELSE IF ic2.status # "ok" THEN [failed EXCEPT !.status = ic2.status]
      ELSE IF OrganellesTopKeyError(g, r4.organelle_models)
           THEN [failed EXCEPT !.status = "KeyError"]
      ELSE [pw |-> [r4.pw EXCEPT !.saved = TRUE],
            cd |-> [r4.cd EXCEPT !.coupled = Append(@, request)],
            status |-> "ok", ret |-> request.ret]
Failed(r) == [pw |-> r.pw, cd |-> r.cd, status |-> r.status, ret |-> <<>>]
TopAfterOrganelles(g, r1, r2, r3, r4) ==
  IF r4.status # "ok" THEN Failed(r4)
  ELSE TopAssemble(g, r1, r2, r3, r4,
         generate_top_bulk_ic(g, r1.ret[1], g.cytoplasm.id,
                              g.cytoplasm.routing_table, r3.ret[1]),
         generate_top_bulk_ic(g, r2.ret[1], g.extra_cellular.id,
                              g.extra_cellular.routing_table, r3.ret[1]))
TopAfterPeriplasm(g, SIZE, opa, r1, r2, r3) ==
  IF r3.status # "ok" THEN Failed(r3)
  ELSE TopAfterOrganelles(g, r1, r2, r3,
         TopOrganelles(g.organelles, SIZE, opa, r3.pw, r3.cd, <<>>))
TopAfterExtraCellular(g, SIZE, opa, r1, r2) ==
  IF r2.status # "ok" THEN Failed(r2)
  ELSE TopAfterPeriplasm(g, SIZE, opa, r1, r2,
         generate_organelle_compartment(g.periplasm, SIZE, OpaOf(opa, g.periplasm),
                                        r2.pw, r2.cd))
TopAfterCytoplasm(g, SIZE, opa, r1) ==
  IF r1.status # "ok" THEN Failed(r1)
  ELSE TopAfterExtraCellular(g, SIZE, opa, r1,
         generate_bulk_compartment(g.extra_cellular, SIZE, OpaOf(opa, g.extra_cellular),
                                   r1.pw, r1.cd))
\* generate_top
generate_top(g, reactions, enzymes, SIZE, opa, pw, cd) ==
  TopAfterCytoplasm(g, SIZE, opa,
    generate_bulk_compartment(g.cytoplasm, SIZE, OpaOf(opa, g.cytoplasm),
      [pw EXCEPT !.reactions = @ \o reactions, !.enzymes = @ \o enzymes], cd))

(* ------------------------------- state --------------------------------- *)
VARIABLES
  pc,                \* the last call made: "init", "constructed", or a method name
  args,              \* the arguments ModelStructure / ModelGenerator is built from
  parser,            \* SBMLParser: compartments, enzyme_set, reactions
  groups_size,       \* ModelGenerator.groups_size
  compartment,       \* a ModelStructure handed to the compartment assemblers
  generator,         \* ModelGenerator: periplasm, extra_cellular, cytoplasm, organelles
  parameter_writer,  \* ModelGenerator.parameter_writer
  coder,             \* ModelGenerator.coder
  ret                \* how the last call ended and what it returned
vars == <<pc, args, parser, groups_size, compartment, generator,
          parameter_writer, coder, ret>>

\* enzyme id -> parameters, in any order of the ids
EnzymeParameters(eid) == <<"parameters", eid>>
EnzymeMappings ==
  {[i \in 1..Len(s) |-> <<s[i], EnzymeParameters(s[i])>>] : s \in InjSeqs(EnzymeIds, MaxEnzymes)}
EmptyGenerator ==
  [extra_cellular_id |-> "", periplasm_id |-> "", cytoplasm_id |-> "",
   periplasm |-> EmptyStructure, extra_cellular |-> EmptyStructure,
   cytoplasm |-> EmptyStructure, organelles |-> <<>>]
NoArgs == [cid |-> "", membranes |-> <<>>, external_enzyme_sets |-> <<>>]
NoRet == [status |-> "none", value |-> <<>>]
OutputPortAmounts == 1..MaxOutputPortAmount

\* the accumulators and the answer after a call that ended as r
Returns(r) ==
  /\ parameter_writer' = r.pw
  /\ coder' = r.cd
  /\ ret' = [status |-> r.status, value |-> r.ret]

(* --------------- the grouper on its own: SpecEnzymeSet ----------------- *)
InitEnzymeSet ==
  /\ pc = "init"
  /\ args = NoArgs
  /\ groups_size \in 1..MaxGroupsSize
  /\ parser \in [compartments : {<<>>}, enzyme_set : EnzymeMappings, reactions : {<<>>}]
  /\ compartment = EmptyStructure
  /\ generator = EmptyGenerator
  /\ parameter_writer = EmptyParameterWriter
  /\ coder = EmptyCoder
  /\ ret = NoRet

\* list(chunks(enzyme_set, SIZE=groups_size))
Chunks ==
  /\ pc = "init"
  /\ pc' = "chunks"
  /\ ret' = [status |-> "ok", value |-> chunks(parser.enzyme_set, groups_size)]
  /\ UNCHANGED <<args, parser, groups_size, compartment, generator, parameter_writer, coder>>

\* generate_enzyme_set(cid, esn, enzyme_set)
GenerateEnzymeSet ==
  /\ pc = "init"
  /\ \E cid \in {"c", "p"}, esn \in {BULK, MEMBRANE}, opa \in OutputPortAmounts :
       LET r == generate_enzyme_set(cid, esn, parser.enzyme_set, groups_size, opa)
       IN  /\ parameter_writer' = [parameter_writer EXCEPT !.routers = @ \o r.routers]
           /\ coder' = [coder EXCEPT !.enzyme_sets = Append(@, r.request)]
           /\ ret' = [status |-> "ok", value |-> r.ret]
  /\ pc' = "generate_enzyme_set"
  /\ UNCHANGED <<args, parser, groups_size, compartment, generator>>

NextEnzymeSet == Chunks \/ GenerateEnzymeSet
SpecEnzymeSet == InitEnzymeSet /\ [][NextEnzymeSet]_vars

(* ---------- one compartment and its assembler: SpecCompartment ---------- *)
UnitCid == "p"
\* dict[str, list[str]]: other compartments, each with a list of distinct names
ExternalEnzymeSets(suppliers) ==
  {[i \in 1..Len(s) |-> <<s[i], l[i]>>] :
     s \in InjSeqs(suppliers, Cardinality(suppliers)),
     l \in [1..Cardinality(suppliers) -> InjSeqs(ExternalNames, MaxExternal)]}
\* what the parser answers for every reaction set of the compartment
CompartmentEnzymeSets ==
  {[i \in 1..3 |-> <<i, EnzymeParameters(i)>>]}

InitCompartment ==
  /\ pc = "init"
  /\ args \in [cid : {UnitCid},
               membranes : InjSeqs(MembraneNames, MaxMembranes),
               external_enzyme_sets : ExternalEnzymeSets({"c"})]
  /\ groups_size = MaxGroupsSize
  /\ parser \in [compartments : {<<>>}, enzyme_set : CompartmentEnzymeSets, reactions : {<<>>}]
  /\ compartment = EmptyStructure
  /\ generator = EmptyGenerator
  /\ parameter_writer = EmptyParameterWriter
  /\ coder = EmptyCoder
  /\ ret = NoRet

\* ModelStructure(cid, parser, membranes, external_enzyme_sets)
Construct ==
  /\ pc = "init"
  /\ pc' = "constructed"
  /\ compartment' = ModelStructure(args.cid, parser.enzyme_set,
                                   args.membranes, args.external_enzyme_sets)
  /\ UNCHANGED <<args, parser, groups_size, generator, parameter_writer, coder, ret>>

GenerateOrganelleCompartment ==
  /\ pc = "constructed"
  /\ \E opa \in [KeySet(compartment.enzyme_sets) -> OutputPortAmounts] :
       Returns(generate_organelle_compartment(compartment, groups_size, opa,
                                               parameter_writer, coder))
  /\ pc' = "generate_organelle_compartment"
  /\ UNCHANGED <<args, parser, groups_size, compartment, generator>>

GenerateBulkCompartment ==
  /\ pc = "constructed"
  /\ \E opa \in [KeySet(compartment.enzyme_sets) -> OutputPortAmounts] :
       Returns(generate_bulk_compartment(compartment, groups_size, opa,
                                          parameter_writer, coder))
  /\ pc' = "generate_bulk_compartment"
  /\ UNCHANGED <<args, parser, groups_size, compartment, generator>>

\* the routing table builder on its own: SpecStructure
InitStructure ==
  /\ pc = "init"
  /\ args \in [cid : {UnitCid},
               membranes : InjSeqs(MembraneNames, MaxMembranes),
               external_enzyme_sets : ExternalEnzymeSets({"c", "e"})]
  /\ groups_size = MaxGroupsSize
  /\ parser \in [compartments : {<<>>}, enzyme_set : CompartmentEnzymeSets, reactions : {<<>>}]
  /\ compartment = EmptyStructure
  /\ generator = EmptyGenerator
  /\ parameter_writer = EmptyParameterWriter
  /\ coder = EmptyCoder
  /\ ret = NoRet
NextStructure == Construct
SpecStructure == InitStructure /\ [][NextStructure]_vars

NextCompartment == Construct \/ GenerateOrganelleCompartment \/ GenerateBulkCompartment
SpecCompartment == InitCompartment /\ [][NextCompartment]_vars

(* ------------------ the whole generator: SpecTop ------------------------ *)
ExtraCellularId == "e"
PeriplasmId == "p"
CytoplasmId == "c"
ParserReactions == <<<<"r1", <<"parameters", "r1">>>>>>
InitTop ==
  /\ pc = "init"
  /\ args = NoArgs
  /\ groups_size = MaxGroupsSize
  /\ parser \in [compartments : {<<ExtraCellularId, PeriplasmId, CytoplasmId>> \o s :
                                   s \in InjSeqs(OrganelleIds, MaxOrganelles)},
                 enzyme_set : CompartmentEnzymeSets,
                 reactions : {ParserReactions}]
  /\ compartment = EmptyStructure
  /\ generator = EmptyGenerator
  /\ parameter_writer = EmptyParameterWriter
  /\ coder = EmptyCoder
  /\ ret = NoRet

\* ModelGenerator(sbml_file, extra_cellular_id, periplasm_id, cytoplasm_id)
ConstructGenerator ==
  /\ pc = "init"
  /\ pc' = "constructed"
  /\ generator' = ModelGeneratorInit(parser.compartments, ExtraCellularId, PeriplasmId,
                                     CytoplasmId, parser.enzyme_set)
  /\ UNCHANGED <<args, parser, groups_size, compartment, parameter_writer, coder, ret>>

\* the coder's answers: any amount for each organelle's membrane set, one
\* amount for every bulk set and one for the membrane sets of the periplasm
TopOpas(g) ==
  LET organelle_keys == {<<cid, MEMBRANE>> : cid \in KeySet(g.organelles)}
      bulk_keys == {<<cid, BULK>> :
                      cid \in KeySet(g.organelles)
                              \cup {g.cytoplasm.id, g.extra_cellular.id, g.periplasm.id}}
      periplasm_keys == {<<g.periplasm.id, esn>> : esn \in {OUTER, INNER, TRANS}}
  IN  {[k \in organelle_keys \cup bulk_keys \cup periplasm_keys |->
          IF k \in organelle_keys THEN o[k] ELSE IF k \in bulk_keys THEN b ELSE m] :
         o \in [organelle_keys -> OutputPortAmounts],
         b \in OutputPortAmounts, m \in OutputPortAmounts}

GenerateTop ==
  /\ pc = "constructed"
  /\ \E opa \in TopOpas(generator) :
       Returns(generate_top(generator, parser.reactions, parser.enzyme_set, groups_size,
                             opa, parameter_writer, coder))
  /\ pc' = "generate_top"
  /\ UNCHANGED <<args, parser, groups_size, compartment, generator>>

\* generate_top_bulk_ic(bulk_model, bulk_cid, bulk_routing_table, periplasm_model)
GenerateTopBulkIc ==
  /\ pc = "constructed"
  /\ \E bulk \in {generator.cytoplasm, generator.extra_cellular} :
       LET r == generate_top_bulk_ic(generator, CoupledModelName(bulk.id), bulk.id,
                                     bulk.routing_table,
                                     CoupledModelName(generator.periplasm.id))
       IN  /\ ret' = [status |-> r.status, value |-> r.ic]
           /\ compartment' = bulk
  /\ pc' = "generate_top_bulk_ic"
  /\ UNCHANGED <<args, parser, groups_size, generator, parameter_writer, coder>>

NextTop == ConstructGenerator \/ GenerateTop \/ GenerateTopBulkIc
SpecTop == InitTop /\ [][NextTop]_vars

(* ------------------------------ properties ----------------------------- *)
RECURSIVE SumLens(_, _)
\* the number of reaction sets the first n suppliers expose
SumLens(external_enzyme_sets, n) ==
  IF n = 0 THEN 0
  ELSE Len(external_enzyme_sets[n][2]) + SumLens(external_enzyme_sets, n - 1)

C2_ChunksPartition ==
  pc = "chunks" =>
    LET groups == ret.value
        data == parser.enzyme_set
    IN  /\ Len(groups) = (Len(data) + groups_size - 1) \div groups_size
        /\ \A g \in 1..Len(groups) : Len(groups[g]) >= 1 /\ Len(groups[g]) <= groups_size
        /\ Concat(groups) = data
        /\ \A k \in KeySet(data) :
             Cardinality({<<g, j>> \in (1..Len(groups)) \X (1..groups_size) :
                            j <= Len(groups[g]) /\ groups[g][j] = <<k, Get(data, k)>>}) = 1
C2_Witness ==
  /\ pc = "chunks"
  /\ groups_size = 2
  /\ Len(parser.enzyme_set) = 3
  /\ Len(ret.value) = 2
  /\ parser.enzyme_set[1][1] > parser.enzyme_set[2][1]

\* C3: generate_bulk_compartment completes only for a compartment with exactly
\* one internal reaction set; with two or more it stops with an assertion
\* error and no space record, no space atomic model and no coupled model has
\* been emitted.
C3_BulkAssertion ==
  pc = "generate_bulk_compartment" =>
    /\ ret.status = "ok" => Len(args.membranes) = 0
    /\ Len(args.membranes) >= 1 =>
         /\ ret.status = "AssertionError"
         /\ parameter_writer.spaces = <<>>
         /\ coder.spaces = <<>>
         /\ coder.coupled = <<>>
C3_Witness ==
  /\ pc = "generate_bulk_compartment"
  /\ Len(args.membranes) = 1
  /\ ret.status = "AssertionError"
  /\ Len(coder.enzyme_sets) = 2

\* C4: generate_organelle_compartment completes only when every routing table
\* key carries the compartment's own id; with a foreign entry it stops with an
\* assertion error and no coupled model is written, so no descriptor has an
\* internal coupling from the space to a foreign compartment's reaction set.
C4_OrganelleAssertion ==
  pc = "generate_organelle_compartment" =>
    LET foreign == \E a \in 1..Len(args.external_enzyme_sets) :
                     /\ args.external_enzyme_sets[a][1] # args.cid
                     /\ args.external_enzyme_sets[a][2] # <<>>
    IN  /\ ret.status = "ok" => ~foreign
        /\ foreign => ret.status = "AssertionError" /\ coder.coupled = <<>>
        /\ \A r \in 1..Len(coder.coupled) : \A e \in 1..Len(coder.coupled[r].ic) :
             coder.coupled[r].ic[e][1] = SpaceModelName(coder.coupled[r].cid)
               => coder.coupled[r].ic[e][4][2] = coder.coupled[r].cid
C4_Witness ==
  /\ pc = "generate_organelle_compartment"
  /\ Len(args.membranes) >= 1
  /\ Len(args.external_enzyme_sets) = 1
  /\ args.external_enzyme_sets[1][2] # <<>>
  /\ ret.status = "AssertionError"
  /\ Len(coder.spaces) = 1

\* C5: generate_enzyme_set never completes with more than groups_size groups
\* for one reaction set (a set of more than groups_size * groups_size enzymes
\* is reported as an error).
C5_GroupCeiling ==
  (pc = "generate_enzyme_set" /\ ret.status = "ok") =>
    /\ Len(coder.enzyme_sets[1].groups_enzyme_ids) <= groups_size
    /\ \A v \in ValueSet(parameter_writer.routers[Len(parameter_writer.routers)][2]) :
         v < groups_size

C5_FailingInput ==
  /\ pc = "generate_enzyme_set"
  /\ groups_size = 1
  /\ Len(parser.enzyme_set) = 2

\* C8: membrane_eic maps the i-th membrane (from 0) to port i while the
\* routing table gives it port i + 1, and a completed
\* generate_organelle_compartment has exactly one external input coupling and
\* one reactant input port per membrane, from compartment input port
\* membrane_eic[m] to input port 0 of the model of (id, m); the bulk set has
\* no external input coupling.
C8_MembraneInputs ==
  /\ pc # "init" =>
       /\ KeySet(compartment.membrane_eic) = SeqSet(args.membranes)
       /\ \A i \in 1..Len(args.membranes) :
            /\ Get(compartment.membrane_eic, args.membranes[i]) = i - 1
            /\ Get(compartment.routing_table, <<args.cid, args.membranes[i]>>) = i
  /\ (pc = "generate_organelle_compartment" /\ ret.status = "ok") =>
       LET d == coder.coupled[Len(coder.coupled)]
           m == args.membranes
           in_ports == SelectSeq(d.ports, LAMBDA port : port[3] = "in")
       IN  /\ Len(d.eic) = Len(m)
           /\ Len(in_ports) = Len(m)
           /\ \A i \in 1..Len(m) :
                /\ Count(d.eic, <<EnzymeSetModelName(args.cid, m[i]), EnzymeType,
                                  NumPort(0), NumPort(i - 1)>>) = 1
                /\ Count(d.ports, <<NumPort(i - 1), REACTANT_MESSAGE_TYPE, "in">>) = 1
           /\ \A e \in 1..Len(d.eic) : d.eic[e][1] # EnzymeSetModelName(args.cid, BULK)
C8_Witness ==
  /\ pc = "generate_organelle_compartment"
  /\ ret.status = "ok"
  /\ args.membranes = <<OUTER, INNER, TRANS>>
  /\ compartment.membrane_eic = <<<<OUTER, 0>>, <<INNER, 1>>, <<TRANS, 2>>>>
  /\ Len(coder.coupled[1].eic) = 3

\* C9: a completed generate_organelle_compartment couples outward, for every
\* reaction set model with output port amount N, exactly its ports 1..N-1
\* (never port 0), once as product and once as information, and declares each
\* output port number once (one product and one information port) however
\* many reaction sets expose it; the declared numbers are the union of the
\* ranges 1..N-1.
C9_OutputPorts ==
  (pc = "generate_organelle_compartment" /\ ret.status = "ok") =>
    LET d == coder.coupled[Len(coder.coupled)]
        es == coder.enzyme_sets
        exposed == UNION {1..(es[i].ret[3] - 1) : i \in 1..Len(es)}
        out_ports == SelectSeq(d.ports, LAMBDA port : port[3] = "out")
        edge(i, n, kind) == <<es[i].ret[1], EnzymeType, StrPort(n, kind), StrPort(n, kind)>>
    IN  /\ \A i \in 1..Len(es) : \A n \in 1..(es[i].ret[3] - 1) :
             /\ Count(d.eoc, edge(i, n, "product")) = 1
             /\ Count(d.eoc, edge(i, n, "information")) = 1
        /\ \A e \in 1..Len(d.eoc) : \E i \in 1..Len(es) :
             /\ d.eoc[e][1] = es[i].ret[1]
             /\ d.eoc[e][3][1] \in 1..(es[i].ret[3] - 1)
        /\ {out_ports[k][1][1] : k \in 1..Len(out_ports)} = exposed
        /\ Len(out_ports) = 2 * Cardinality(exposed)
        /\ \A n \in exposed :
             /\ Count(d.ports, <<StrPort(n, "product"), PRODUCT_MESSAGE_TYPE, "out">>) = 1
             /\ Count(d.ports, <<StrPort(n, "information"), INFORMATION_MESSAGE_TYPE, "out">>) = 1
C9_Witness ==
  /\ pc = "generate_organelle_compartment"
  /\ ret.status = "ok"
  /\ Cardinality({i \in 1..Len(coder.enzyme_sets) : coder.enzyme_sets[i].ret[3] = 2}) >= 2
  /\ \E i \in 1..Len(coder.enzyme_sets) : coder.enzyme_sets[i].ret[3] = 1
  /\ Len(coder.coupled[1].eoc) >= 4

\* C10: generate_enzyme_set numbers the groups 0, 1, 2, ... in creation order;
\* the set's router record maps every enzyme to the number of the one group
\* holding it; each group's router record maps its enzymes to the ports
\* 0..(group size - 1) in iteration order; and the parameter writer gets one
\* router record per group and one for the set, also for an empty set.
C10_RouterRecords ==
  pc = "generate_enzyme_set" =>
    LET request == coder.enzyme_sets[1]
        ids == request.groups_enzyme_ids
        routers == parameter_writer.routers
        set_router == routers[Len(routers)]
    IN  /\ Concat(ids) = Keys(parser.enzyme_set)
        /\ \A g \in 1..Len(ids) : Len(ids[g]) \in 1..groups_size
        /\ Len(routers) = Len(ids) + 1
        /\ \A g \in 1..Len(ids) :
             /\ routers[g][1] = GroupId(request.cid, request.esn, g - 1)
             /\ routers[g][2] = [j \in 1..Len(ids[g]) |-> <<ids[g][j], j - 1>>]
        /\ set_router[1] = EnzymeSetId(request.cid, request.esn)
        /\ KeySet(set_router[2]) = KeySet(parser.enzyme_set)
        /\ Len(set_router[2]) = Len(parser.enzyme_set)
        /\ \A g \in 1..Len(ids) : \A j \in 1..Len(ids[g]) :
             Get(set_router[2], ids[g][j]) = g - 1
C10_Witness ==
  /\ pc = "generate_enzyme_set"
  /\ groups_size = 2
  /\ Len(parser.enzyme_set) = 3
  /\ Len(parameter_writer.routers) = 3
  /\ parameter_writer.routers[2][2] = <<<<parser.enzyme_set[3][1], 0>>>>
C10_WitnessEmpty ==
  /\ pc = "generate_enzyme_set"
  /\ parser.enzyme_set = <<>>
  /\ Len(parameter_writer.routers) = 1

\* C6: in the root internal coupling every organelle has its membrane input
\* port driven from the cytoplasm output port that the cytoplasm's routing
\* table gives (organelle id, membrane); its output port 1 (product and
\* information) goes to the cytoplasm's input port 0; and its output port 2
\* goes to the extracellular space's input port 0 exactly when the organelle's
\* descriptor declares output port 2.
C6_OrganelleRootCoupling ==
  (pc = "generate_top" /\ ret.status = "ok") =>
    LET ic == SeqSet(coder.coupled[Len(coder.coupled)].ic)
        cytoplasm_model == CoupledModelName(CytoplasmId)
        extra_cellular_model == CoupledModelName(ExtraCellularId)
        organelle_ids == SeqSet(parser.compartments)
                         \ {ExtraCellularId, PeriplasmId, CytoplasmId}
        descriptor(cid) ==
          coder.coupled[CHOOSE r \in 1..Len(coder.coupled) : coder.coupled[r].cid = cid]
        edge(cid, n, kind, to) ==
          <<CoupledModelName(cid), CoupledModelName(cid), StrPort(n, kind),
            to, to, StrPort(0, kind)>>
    IN  /\ KeySet(generator.organelles) = organelle_ids
        /\ \A cid \in organelle_ids :
             /\ \A m \in KeySet(Get(generator.organelles, cid).membrane_eic) :
                  <<cytoplasm_model,
                    NumPort(Get(generator.cytoplasm.routing_table, <<cid, m>>)),
                    CoupledModelName(cid),
                    NumPort(Get(Get(generator.organelles, cid).membrane_eic, m))>> \in ic
             /\ KeySet(Get(generator.organelles, cid).membrane_eic) = {MEMBRANE}
             /\ edge(cid, 1, "product", cytoplasm_model) \in ic
             /\ edge(cid, 1, "information", cytoplasm_model) \in ic
             /\ (2 \in OutPortNumbers(descriptor(cid).ports))
                  <=> edge(cid, 2, "product", extra_cellular_model) \in ic
             /\ (2 \in OutPortNumbers(descriptor(cid).ports))
                  <=> edge(cid, 2, "information", extra_cellular_model) \in ic
C6_Witness ==
  /\ pc = "generate_top"
  /\ ret.status = "ok"
  /\ \E r1, r2 \in 1..Len(coder.coupled) :
       /\ coder.coupled[r1].cid \in OrganelleIds
       /\ coder.coupled[r2].cid \in OrganelleIds
       /\ OutPortNumbers(coder.coupled[r1].ports) = {1, 2}
       /\ OutPortNumbers(coder.coupled[r2].ports) = {1}

\* C7: for the cytoplasm and for the extracellular space, generate_top_bulk_ic
\* emits one edge per routing table entry that targets the periplasm, from the
\* entry's port of the bulk compartment to the periplasm input port of the
\* entry's reaction set, and no edge for the other entries; the lookup in the
\* periplasm's membrane_eic never fails (INNER, TRANS for the cytoplasm, OUTER,
\* TRANS for the extracellular space).
C7_BulkToPeriplasm ==
  pc = "generate_top_bulk_ic" =>
    LET ic == ret.value
        bulk_model == CoupledModelName(compartment.id)
        periplasm_model == CoupledModelName(PeriplasmId)
        rt == compartment.routing_table
        to_periplasm == {i \in 1..Len(rt) : rt[i][1][1] = PeriplasmId}
        from_bulk == {e \in 1..Len(ic) : ic[e][1] = bulk_model}
    IN  /\ ret.status = "ok"
        /\ compartment.id \in {CytoplasmId, ExtraCellularId}
        /\ {rt[i][1][2] : i \in to_periplasm} =
             (IF compartment.id = CytoplasmId THEN {INNER, TRANS} ELSE {OUTER, TRANS})
        /\ \A i \in to_periplasm :
             Count(ic, <<bulk_model, bulk_model, NumPort(rt[i][2]),
                         periplasm_model, periplasm_model,
                         NumPort(Get(generator.periplasm.membrane_eic, rt[i][1][2]))>>) = 1
        /\ Cardinality(from_bulk) = Cardinality(to_periplasm)
        /\ \A e \in from_bulk : ic[e][4] = periplasm_model
C7_Witness ==
  /\ pc = "generate_top_bulk_ic"
  /\ compartment.id = CytoplasmId
  /\ Len(compartment.routing_table) = 5
  /\ Len(ret.value) = 4
  /\ <<CoupledModelName(CytoplasmId), CoupledModelName(CytoplasmId), NumPort(4),
       CoupledModelName(PeriplasmId), CoupledModelName(PeriplasmId), NumPort(2)>>
       \in SeqSet(ret.value)

\* C11: every root internal coupling edge that leaves a numbered output port
\* p of a bulk compartment B (cytoplasm or extracellular space) for input
\* port q of a compartment X has an entry (X's id, s) -> p in B's own routing
\* table with X.membrane_eic[s] = q, and p is an output port B's descriptor
\* declares.
C11_BulkPortsFollowRoutingTable ==
  (pc = "generate_top" /\ ret.status = "ok") =>
    LET ic == coder.coupled[Len(coder.coupled)].ic
        bulks == {generator.cytoplasm, generator.extra_cellular}
        structure(xid) == IF xid = generator.periplasm.id THEN generator.periplasm
                          ELSE Get(generator.organelles, xid)
        descriptor(cid) ==
          coder.coupled[CHOOSE r \in 1..Len(coder.coupled) : coder.coupled[r].cid = cid]
        port(e) == IF Len(e) = 4 THEN e[2] ELSE e[3]
        target(e) == IF Len(e) = 4 THEN e[3] ELSE e[4]
        input(e) == IF Len(e) = 4 THEN e[4] ELSE e[6]
    IN  \A i \in 1..Len(ic) : \A B \in bulks :
          (ic[i][1] = CoupledModelName(B.id) /\ port(ic[i])[2] = "") =>
            /\ \E k \in 1..Len(B.routing_table) :
                 /\ B.routing_table[k][1][1] = target(ic[i])[2]
                 /\ B.routing_table[k][2] = port(ic[i])[1]
                 /\ HasKey(structure(target(ic[i])[2]).membrane_eic, B.routing_table[k][1][2])
                 /\ NumPort(Get(structure(target(ic[i])[2]).membrane_eic,
                                B.routing_table[k][1][2])) = input(ic[i])
            /\ <<port(ic[i]), REACTANT_MESSAGE_TYPE, "out">>
                 \in SeqSet(descriptor(B.id).ports)
\* one organelle whose membrane reaction set has output ports 0, 1 and 2
C11_FailingInput ==
  /\ pc = "generate_top"
  /\ ret.status = "ok"
  /\ Len(generator.organelles) = 1
  /\ <<CoupledModelName(ExtraCellularId), CoupledModelName(ExtraCellularId), NumPort(1),
       CoupledModelName(generator.organelles[1][1]),
       CoupledModelName(generator.organelles[1][1]), NumPort(0)>>
       \in SeqSet(coder.coupled[Len(coder.coupled)].ic)
  /\ Get(generator.extra_cellular.routing_table, <<PeriplasmId, OUTER>>) = 1

====
